---------------------------- MODULE Spec2Model ----------------------------
(***************************************************************************)
(* A model of cleandb++.py: the numeric extractor, the header normalizer,  *)
(* the per-file cleaning pipeline, the batch driver and the GUI shell's    *)
(* start/finish protocol.                                                  *)
(*                                                                         *)
(* Text is a sequence of one-character strings.  A number is an integer    *)
(* in units of 1/Scale (fixed point), so that parsing, the mean and the    *)
(* rounding to three decimals are computed, not assumed.                   *)
(***************************************************************************)
EXTENDS Integers, Sequences, FiniteSets, TLC

VARIABLES
    cell,            \* extract_numeric: the value passed in
    result,          \* extract_numeric: the value returned (k = "none" before the call)
    raw,             \* clean_headers: the raw column labels
    cols1,           \* clean_headers: the labels after the first application
    cols,            \* clean_headers: df.columns as it stands
    hpass,           \* clean_headers: how many times it has been applied
    tree,            \* the input tree as os.walk lists it: files [dir, name, content]
    idx,             \* main_processing_logic: the file of the walk being looked at
    pc,              \* where the batch, or the file being processed, stands
    found,           \* found_csv_files
    df,              \* process_single_csv_file: the DataFrame
    trace,           \* the stages the current file has passed, each with its DataFrame
    cleanedFs,       \* the cleaned folder: file name -> [by, csv]
    reportFs,        \* the report folder: file name -> [by, report]
    writes,          \* every file written, in order: [by, folder, name]
    calls,           \* the files process_single_csv_file was called for, in order
    log,             \* the messages handed to logger_func (tag, file)
    process_button,  \* the state of the "Start Processing" button
    quit_button,     \* the state of the "Quit" button
    main,            \* the main thread: "idle" in the event loop, "starting", "quit"
    threads,         \* the worker threads alive, each with the messages it has yet to log
    afterq,          \* the callbacks queued with master.after(0, ...), in order
    last,            \* what the main thread handled last
    outcome          \* how the last worker ended

xvars == <<cell, result>>
hvars == <<raw, cols1, cols, hpass>>
bvars == <<tree, idx, pc, found, df, trace, cleanedFs, reportFs, writes, calls, log>>
gvars == <<process_button, quit_button, main, threads, afterq, last, outcome>>
vars == <<xvars, hvars, bvars, gvars>>

(***************************************************************************)
(* Bounds of the model.                                                    *)
(***************************************************************************)
MaxCellLen == 4
MaxLabels == 3      \* labels of a header in the narrow alphabet
MaxLabelLen == 3    \* characters of such a label
MaxWideLen == 4     \* characters of a single label in the wide alphabet
MaxRows == 2        \* data rows of the file of a one-file batch
MaxFiles == 2       \* files of the input tree of a batch
MaxLogs == 2        \* messages a batch logs before it ends

\* Fixed-point unit: 4 decimal digits, one more than the rounding keeps.
Scale == 10 * 10 * 10 * 10

(***************************************************************************)
(* Values of a cell.  k: "str" text, "int"/"num" a Python int / float,     *)
(* "nan" the float NaN (pandas' absent marker in a loaded column),         *)
(* "NA" pd.NA, "none" no value.                                            *)
(***************************************************************************)
Str(s)  == [k |-> "str", s |-> s,     v |-> 0]
Num(n)  == [k |-> "num", s |-> <<>>,  v |-> n]
IntC(n) == [k |-> "int", s |-> <<>>,  v |-> n]
NaN     == [k |-> "nan", s |-> <<>>,  v |-> 0]
NA      == [k |-> "NA",  s |-> <<>>,  v |-> 0]
NoValue == [k |-> "none", s |-> <<>>, v |-> 0]

Digits == {"0", "1", "2", "3", "4", "5", "6", "7", "8", "9"}

DigitVal(c) ==
    CASE c = "0" -> 0 [] c = "1" -> 1 [] c = "2" -> 2 [] c = "3" -> 3
      [] c = "4" -> 4 [] c = "5" -> 5 [] c = "6" -> 6 [] c = "7" -> 7
      [] c = "8" -> 8 [] c = "9" -> 9

IsDigit(c) == c \in Digits
IsSign(c) == c \in {"-", "+"}
\* str.isspace of the characters the model uses: the ASCII space, and the
\* no-break space U+00A0 (written "~").
IsSpace(c) == c \in {" ", "~"}

RECURSIVE Pow10(_)
Pow10(n) == IF n = 0 THEN 1 ELSE 10 * Pow10(n - 1)

\* All texts of at most n characters over the alphabet A.
Texts(A, n) == UNION {[1..k -> A] : k \in 0..n}

(***************************************************************************)
(* extract_numeric (lines 11-20)                                           *)
(***************************************************************************)
\* value.replace('%', '')
RECURSIVE RemovePercent(_)
RemovePercent(s) ==
    IF s = <<>> THEN <<>>
    ELSE IF Head(s) = "%" THEN RemovePercent(Tail(s))
         ELSE <<Head(s)>> \o RemovePercent(Tail(s))

\* str.strip()
RECURSIVE LStrip(_)
LStrip(s) == IF s # <<>> /\ IsSpace(Head(s)) THEN LStrip(Tail(s)) ELSE s

RECURSIVE RStrip(_)
RStrip(s) ==
    IF s # <<>> /\ IsSpace(s[Len(s)]) THEN RStrip(SubSeq(s, 1, Len(s) - 1)) ELSE s

Strip(s) == RStrip(LStrip(s))

\* The number of digits of s from position p on (a greedy \d* at p).
RECURSIVE DigitRun(_, _)
DigitRun(s, p) ==
    IF p <= Len(s) /\ IsDigit(s[p]) THEN 1 + DigitRun(s, p + 1) ELSE 0

\* The regex [-+]?\d*\.?\d+ matched at a position, as the backtracking matcher
\* tries it: every quantifier greedy, the first success wins.  Each operator
\* gives the position after the match, or 0 when there is none.
\* \d+ at p:
MatchPlus(s, p) == IF DigitRun(s, p) >= 1 THEN p + DigitRun(s, p) ELSE 0

\* \.?\d+ at p: with the point first, then without.
MatchDot(s, p) ==
    IF p <= Len(s) /\ s[p] = "." /\ MatchPlus(s, p + 1) # 0
    THEN MatchPlus(s, p + 1)
    ELSE MatchPlus(s, p)

\* \d*\.?\d+ at j with \d* taking k digits, then fewer.
RECURSIVE MatchDigits(_, _, _)
MatchDigits(s, j, k) ==
    IF k < 0 THEN 0
    ELSE IF MatchDot(s, j + k) # 0 THEN MatchDot(s, j + k)
         ELSE MatchDigits(s, j, k - 1)

\* A faulty variant: the pattern without its sign, \d*\.?\d+.
MatchAtNoSign(s, i) == MatchDigits(s, i, DigitRun(s, i))

\* The whole pattern at i: with the sign first, then without.
MatchAt(s, i) ==
    IF IsSign(s[i]) /\ MatchDigits(s, i + 1, DigitRun(s, i + 1)) # 0
    THEN MatchDigits(s, i + 1, DigitRun(s, i + 1))
    ELSE MatchDigits(s, i, DigitRun(s, i))

\* re.search: the first position with a match, 0 when there is none.
RECURSIVE SearchFrom(_, _)
SearchFrom(s, i) ==
    IF i > Len(s) THEN 0
    ELSE IF MatchAt(s, i) # 0 THEN i ELSE SearchFrom(s, i + 1)

\* The value of a run of digits read as an integer.
RECURSIVE DigitsValue(_)
DigitsValue(d) ==
    IF d = <<>> THEN 0
    ELSE 10 * DigitsValue(SubSeq(d, 1, Len(d) - 1)) + DigitVal(d[Len(d)])

\* float(text) of a matched literal, in units of 1/Scale.
ParseFloat(m) ==
    LET neg  == m[1] = "-"
        body == IF IsSign(m[1]) THEN Tail(m) ELSE m
        ip   == DigitRun(body, 1)
        hasP == ip < Len(body) /\ body[ip + 1] = "."
        frac == IF hasP THEN SubSeq(body, ip + 2, Len(body)) ELSE <<>>
        mag  == DigitsValue(SubSeq(body, 1, ip)) * Scale
                + (DigitsValue(frac) * Scale) \div Pow10(Len(frac))
    IN  IF neg THEN 0 - mag ELSE mag

extract_numeric(value) ==
    IF value.k = "str"
    THEN LET t == Strip(RemovePercent(value.s))
             i == SearchFrom(t, 1)
         IN  IF i # 0 THEN Num(ParseFloat(SubSeq(t, i, MatchAt(t, i) - 1))) ELSE NA
    ELSE IF value.k \in {"int", "num"} THEN Num(value.v)
    ELSE IF value.k = "nan" THEN NaN
    ELSE NA

(***************************************************************************)
(* Specification of the extractor: one call on one value.                  *)
(***************************************************************************)
CellAlphabet == {"1", "2", ".", "-", "+", "%", " ", "x"}

ExtractInputs ==
    {Str(s) : s \in Texts(CellAlphabet, MaxCellLen)}
        \cup {Num(n * (Scale \div 2)) : n \in -2..2}
        \cup {IntC(n * Scale) : n \in -1..1}
        \cup {NaN, NA}

NoFiles == [n \in {} |-> 0]

BatchIdle ==
    /\ tree = <<>> /\ idx = 0 /\ pc = "idle" /\ found = FALSE
    /\ df = [nrows |-> 0, cols |-> <<>>] /\ trace = <<>>
    /\ cleanedFs = NoFiles /\ reportFs = NoFiles
    /\ writes = <<>> /\ calls = <<>> /\ log = <<>>

GuiIdle ==
    /\ process_button = "normal" /\ quit_button = "normal" /\ main = "idle"
    /\ threads = <<>> /\ afterq = <<>> /\ last = <<"none", "">> /\ outcome = "none"

HeadersIdle == raw = <<>> /\ cols1 = <<>> /\ cols = <<>> /\ hpass = 0

InitExtract ==
    /\ cell \in ExtractInputs
    /\ result = NoValue
    /\ HeadersIdle
    /\ BatchIdle
    /\ GuiIdle

Extract ==
    /\ result = NoValue
    /\ result' = extract_numeric(cell)
    /\ UNCHANGED <<cell, hvars, bvars, gvars>>

NextExtract == Extract

SpecExtract == InitExtract /\ [][NextExtract]_vars

(***************************************************************************)
(* C7.  What the extractor is said to return, stated without the matcher:  *)
(* a literal is an optional sign followed by digits with at most one       *)
(* decimal point and a digit last; of all substrings that are literals     *)
(* the one starting leftmost, and of those the longest, gives the value.   *)
(***************************************************************************)
IsLiteral(u) ==
    /\ u # <<>>
    /\ LET b == IF IsSign(u[1]) THEN Tail(u) ELSE u
       IN  /\ b # <<>>
           /\ \A i \in 1..Len(b) : IsDigit(b[i]) \/ b[i] = "."
           /\ Cardinality({i \in 1..Len(b) : b[i] = "."}) <= 1
           /\ IsDigit(b[Len(b)])

LiteralSpans(t) ==
    {sp \in (1..Len(t)) \X (1..Len(t)) :
        sp[1] <= sp[2] /\ IsLiteral(SubSeq(t, sp[1], sp[2]))}

LeftmostLiteral(t) ==
    LET S  == LiteralSpans(t)
        i0 == CHOOSE i \in {sp[1] : sp \in S} : \A sp \in S : i <= sp[1]
        j0 == CHOOSE j \in {sp[2] : sp \in {q \in S : q[1] = i0}} :
                  \A sp \in S : sp[1] = i0 => sp[2] <= j
    IN  SubSeq(t, i0, j0)

\* The value of a literal, digit by digit around its decimal point.
RECURSIVE PlaceSum(_, _, _)
PlaceSum(b, p, i) ==
    IF i > Len(b) THEN 0
    ELSE (IF i < p THEN DigitVal(b[i]) * Pow10(p - 1 - i) * Scale
          ELSE IF i > p THEN (DigitVal(b[i]) * Scale) \div Pow10(i - p)
          ELSE 0)
         + PlaceSum(b, p, i + 1)

LiteralValue(u) ==
    LET b == IF IsSign(u[1]) THEN Tail(u) ELSE u
        P == {i \in 1..Len(b) : b[i] = "."}
        p == IF P = {} THEN Len(b) + 1 ELSE CHOOSE i \in P : TRUE
    IN  IF u[1] = "-" THEN 0 - PlaceSum(b, p, 1) ELSE PlaceSum(b, p, 1)

HasDigit(s) == \E i \in 1..Len(s) : IsDigit(s[i])

\* C7: a text cell yields the value of its leftmost (longest) signed decimal
\* literal once percent signs and surrounding whitespace are removed, and
\* absent exactly when it holds no digit; a number is returned unchanged and
\* any other value yields absent.
C7_ExtractLeftmostLiteral ==
    result.k # "none" =>
        /\ cell.k = "str" =>
              LET t == Strip(RemovePercent(cell.s))
              IN  /\ (result.k = "NA") <=> ~HasDigit(cell.s)
                  /\ HasDigit(cell.s) => result = Num(LiteralValue(LeftmostLiteral(t)))
        /\ cell.k \in {"int", "num"} => result = Num(cell.v)
        /\ cell.k \in {"nan", "NA"} => result.k \in {"nan", "NA"}

\* Witness of C7: "x-.2" has been extracted as -0.2 (sign and point kept).
C7_Witness ==
    /\ cell = Str(<<"x", "-", ".", "2">>)
    /\ result = Num(0 - 2 * (Scale \div 10))

(***************************************************************************)
(* clean_headers (lines 77-102).  Characters outside ASCII are written     *)
(* with stand-ins: "[" and "]" are the full-width parentheses U+FF08 and   *)
(* U+FF09, "~" is the no-break space U+00A0 (whitespace to the regex       *)
(* class \s, not ASCII), "#" is a non-ASCII letter such as U+00E9.         *)
(***************************************************************************)
IsAscii(c) == c \notin {"[", "]", "~", "#"}
\* The ASCII letters the model writes (lower case).
AsciiLetters ==
    {"a", "b", "c", "d", "e", "f", "g", "h", "i", "j", "k", "l", "m",
     "n", "o", "p", "q", "r", "s", "t", "u", "v", "w", "x", "y", "z"}

IsAsciiAlnum(c) == c \in Digits \cup AsciiLetters

\* line 81: .str.replace(r"[（）]", "()"): each full-width parenthesis, opening
\* or closing, becomes the two characters "()".
RECURSIVE ReplaceWideParens(_)
ReplaceWideParens(s) ==
    IF s = <<>> THEN <<>>
    ELSE (IF Head(s) \in {"[", "]"} THEN <<"(", ")">> ELSE <<Head(s)>>)
         \o ReplaceWideParens(Tail(s))

\* The first position >= p holding c, 0 when there is none.
RECURSIVE Find(_, _, _)
Find(s, c, p) ==
    IF p > Len(s) THEN 0 ELSE IF s[p] = c THEN p ELSE Find(s, c, p + 1)

\* line 82: .str.replace(r"\(.*?\)", ""): from each "(" to the nearest ")"
\* after it, left to right.
RECURSIVE RemoveParenthesized(_)
RemoveParenthesized(s) ==
    LET o == Find(s, "(", 1)
        c == IF o = 0 THEN 0 ELSE Find(s, ")", o + 1)
    IN  IF c = 0 THEN s
        ELSE SubSeq(s, 1, o - 1) \o RemoveParenthesized(SubSeq(s, c + 1, Len(s)))

\* line 83: .str.replace(r"[^a-zA-Z0-9_\s-]", "")
RECURSIVE KeepWordChars(_)
KeepWordChars(s) ==
    IF s = <<>> THEN <<>>
    ELSE (IF IsAsciiAlnum(Head(s)) \/ Head(s) \in {"_", "-"} \/ IsSpace(Head(s))
          THEN <<Head(s)>> ELSE <<>>)
         \o KeepWordChars(Tail(s))

\* line 84: .str.replace(" ", "_")
RECURSIVE SpacesToUnderscores(_)
SpacesToUnderscores(s) ==
    IF s = <<>> THEN <<>>
    ELSE <<IF Head(s) = " " THEN "_" ELSE Head(s)>> \o SpacesToUnderscores(Tail(s))

\* line 85: .str.replace(r"_+", "_")
RECURSIVE CollapseUnderscores(_)
CollapseUnderscores(s) ==
    IF Len(s) < 2 THEN s
    ELSE IF s[1] = "_" /\ s[2] = "_" THEN CollapseUnderscores(Tail(s))
         ELSE <<Head(s)>> \o CollapseUnderscores(Tail(s))

\* line 86: .str.strip('_')
RECURSIVE StripUnderscores(_)
StripUnderscores(s) ==
    IF s # <<>> /\ Head(s) = "_" THEN StripUnderscores(Tail(s))
    ELSE IF s # <<>> /\ s[Len(s)] = "_" THEN StripUnderscores(SubSeq(s, 1, Len(s) - 1))
    ELSE s

\* line 87: .str.encode('ascii', errors='ignore').str.decode('ascii')
RECURSIVE DropNonAscii(_)
DropNonAscii(s) ==
    IF s = <<>> THEN <<>>
    ELSE (IF IsAscii(Head(s)) THEN <<Head(s)>> ELSE <<>>) \o DropNonAscii(Tail(s))

\* lines 80-88, one label.
TransformLabel(s) ==
    DropNonAscii(StripUnderscores(CollapseUnderscores(SpacesToUnderscores(
        KeepWordChars(RemoveParenthesized(ReplaceWideParens(s)))))))

\* str(n) of a counter.
RECURSIVE IntToText(_)
IntToText(n) ==
    LET d == <<"0", "1", "2", "3", "4", "5", "6", "7", "8", "9">>[(n % 10) + 1]
    IN  IF n < 10 THEN <<d>> ELSE IntToText(n \div 10) \o <<d>>

UnnamedColumn ==
    <<"u", "n", "n", "a", "m", "e", "d", "_", "c", "o", "l", "u", "m", "n">>

\* lines 90-100: the loop over the transformed labels, from label i on, with
\* the dictionary counts (a function on the labels seen) carried along.
RECURSIVE ResolveDuplicates(_, _, _)
ResolveDuplicates(labels, i, counts) ==
    IF i > Len(labels) THEN <<>>
    ELSE LET col == IF labels[i] = <<>> THEN UnnamedColumn ELSE labels[i]
         IN  IF col \in DOMAIN counts
             THEN <<col \o <<"_">> \o IntToText(counts[col] + 1)>>
                  \o ResolveDuplicates(labels, i + 1,
                                       [counts EXCEPT ![col] = counts[col] + 1])
             ELSE <<col>>
                  \o ResolveDuplicates(labels, i + 1,
                                       [c \in DOMAIN counts \cup {col} |->
                                           IF c = col THEN 0 ELSE counts[c]])

EmptyCounts == [c \in {} |-> 0]

clean_headers(labels) ==
    ResolveDuplicates([i \in 1..Len(labels) |-> TransformLabel(labels[i])], 1,
                      EmptyCounts)

(***************************************************************************)
(* Specification of the normalizer: a header is normalized, and the        *)
(* result normalized again.  pandas.read_csv hands over labels that are    *)
(* non-empty and pairwise distinct (it renames repeated and empty ones).   *)
(***************************************************************************)
NarrowAlphabet == {"a", "_", "1"}
WideAlphabet == {"a", "1", "_", " ", "-", "(", ")", "[", "~", "#", "$"}

NarrowLabels == Texts(NarrowAlphabet, MaxLabelLen) \ {<<>>}

Distinct(q) == \A i, j \in 1..Len(q) : i # j => q[i] # q[j]

HeaderInputs ==
    {q \in UNION {[1..n -> NarrowLabels] : n \in 1..MaxLabels} : Distinct(q)}
        \cup {<<s>> : s \in Texts(WideAlphabet, MaxWideLen) \ {<<>>}}

ExtractIdle == cell = NoValue /\ result = NoValue

InitHeaders ==
    /\ raw \in HeaderInputs
    /\ cols1 = <<>>
    /\ cols = raw
    /\ hpass = 0
    /\ ExtractIdle
    /\ BatchIdle
    /\ GuiIdle

Normalize ==
    /\ hpass = 0
    /\ cols' = clean_headers(cols)
    /\ cols1' = cols'
    /\ hpass' = 1
    /\ UNCHANGED <<raw, xvars, bvars, gvars>>

Renormalize ==
    /\ hpass = 1
    /\ cols' = clean_headers(cols)
    /\ hpass' = 2
    /\ UNCHANGED <<raw, cols1, xvars, bvars, gvars>>

NextHeaders == Normalize \/ Renormalize

SpecHeaders == InitHeaders /\ [][NextHeaders]_vars

\* C5: the normalized labels are as many as the raw ones, none is empty and
\* no two are equal.
C5_UniqueNonEmpty ==
    hpass >= 1 =>
        /\ Len(cols1) = Len(raw)
        /\ \A i \in 1..Len(cols1) : cols1[i] # <<>>
        /\ Distinct(cols1)

\* C6: normalizing normalized labels gives them back, label by label.
C6_Idempotent == hpass = 2 => cols = cols1

(***************************************************************************)
(* The dataset of one file.  A DataFrame is [nrows, cols], cols a sequence *)
(* of columns [label, dtype, cells]; dtype is pandas' column type, which   *)
(* select_dtypes and clean_mixed_columns read.                             *)
(***************************************************************************)
Column(label, dtype, cells) == [label |-> label, dtype |-> dtype, cells |-> cells]

\* Series.isna of one cell: NaN and pd.NA are absent.
isna(c) == c.k \in {"nan", "NA"}

\* A text the float parser of pandas reads whole as a number.
FullNumber(s) == s # <<>> /\ MatchAt(s, 1) = Len(s) + 1

\* pandas.read_csv's type inference for one column of field texts (line 171):
\* a column of numbers and empty fields is numeric (int64 when every field
\* is an integer, float64 with NaN for the empty fields otherwise); any
\* other column is of dtype object and holds str, with NaN for the empty
\* fields.  A column without rows is of dtype object.
InferColumn(label, texts) ==
    LET n == Len(texts)
    IN  IF n = 0 THEN Column(label, "object", <<>>)
        ELSE IF \A i \in 1..n : texts[i] = <<>> \/ FullNumber(texts[i])
        THEN IF \A i \in 1..n : texts[i] # <<>> /\ Find(texts[i], ".", 1) = 0
             THEN Column(label, "int64", [i \in 1..n |-> IntC(ParseFloat(texts[i]))])
             ELSE Column(label, "float64",
                         [i \in 1..n |-> IF texts[i] = <<>> THEN NaN
                                         ELSE Num(ParseFloat(texts[i]))])
        ELSE Column(label, "object",
                    [i \in 1..n |-> IF texts[i] = <<>> THEN NaN ELSE Str(texts[i])])

\* The rows read_csv keeps: a line without any character is skipped
\* (skip_blank_lines), and such is a row of one empty field.
RECURSIVE DataRows(_)
DataRows(rows) ==
    IF rows = <<>> THEN <<>>
    ELSE (IF Head(rows) = <<<<>>>> THEN <<>> ELSE <<Head(rows)>>) \o DataRows(Tail(rows))

ReadCsv(content) ==
    LET rows == DataRows(content.rows)
    IN  [nrows |-> Len(rows),
         cols  |-> [j \in 1..Len(content.header) |->
                       InferColumn(content.header[j],
                                   [i \in 1..Len(rows) |-> rows[i][j]])]]

NoFrame == [nrows |-> 0, cols |-> <<>>]

\* DataFrame.empty
DfEmpty(d) == d.nrows = 0 \/ Len(d.cols) = 0

\* A faulty variant: the check of line 180 left out.
SkipNever(d) == FALSE

\* line 180: "if df.empty: ... Skipping".

SkipAfterLoad(d) == DfEmpty(d)

Labels(d) == [j \in 1..Len(d.cols) |-> d.cols[j].label]

\* df.columns = final_columns (line 101)
WithLabels(d, labels) ==
    [d EXCEPT !.cols = [j \in 1..Len(d.cols) |-> [d.cols[j] EXCEPT !.label = labels[j]]]]

\* The dtype of the Series that Series.apply builds from floats and pd.NA:
\* float64 when every value is a float (NaN included), object once a pd.NA
\* is among them.
ApplyDtype(cells) ==
    IF \E i \in 1..Len(cells) : cells[i].k = "NA" THEN "object" ELSE "float64"

\* clean_mixed_columns, one column (lines 26-33).
CleanMixedColumn(c) ==
    LET n       == Len(c.cells)
        cleaned == [i \in 1..n |-> extract_numeric(c.cells[i])]
    IN  IF c.dtype = "object" /\ ~(\A i \in 1..n : isna(c.cells[i]))
        THEN IF \/ \E i \in 1..n : ~isna(cleaned[i])
                \/ \A i \in 1..n : c.cells[i].k = "str" /\ cleaned[i].k = "NA"
             THEN Column(c.label, ApplyDtype(cleaned), cleaned)
             ELSE c
        ELSE c

clean_mixed_columns(d) ==
    [d EXCEPT !.cols = [j \in 1..Len(d.cols) |-> CleanMixedColumn(d.cols[j])]]

\* pd.to_numeric(..., errors='coerce').notna() of one cell
CoercesToNumber(c) ==
    \/ c.k \in {"int", "num"}
    \/ c.k = "str" /\ FullNumber(Strip(c.s))

\* isinstance(x, (int, float)): the float NaN is an instance of float.
IsIntOrFloat(c) == c.k \in {"int", "num", "nan"}

\* lines 57-68: the mask entry of one column.
is_potentially_numeric(c) ==
    \/ \E i \in 1..Len(c.cells) : IsIntOrFloat(c.cells[i])
    \/ \E i \in 1..Len(c.cells) : CoercesToNumber(c.cells[i])

RECURSIVE SelectCols(_, _)
SelectCols(cs, j) ==
    IF j > Len(cs) THEN <<>>
    ELSE (IF is_potentially_numeric(cs[j]) THEN <<cs[j]>> ELSE <<>>)
         \o SelectCols(cs, j + 1)

\* df.loc[:, numeric_cols_mask] (line 74)
remove_fully_non_numeric_columns(d) == [d EXCEPT !.cols = SelectCols(d.cols, 1)]

\* A faulty variant: the check of line 201 left out.
EmptyNever(d) == FALSE

\* line 201: "if df.empty or df.shape[1] == 0".

EmptyAfterPruning(d) == IF DfEmpty(d) THEN TRUE ELSE Len(d.cols) = 0

(***************************************************************************)
(* report_missing_values (lines 104-136): the figures of the report.       *)
(***************************************************************************)
RECURSIVE SumSeq(_)
SumSeq(q) == IF q = <<>> THEN 0 ELSE Head(q) + SumSeq(Tail(q))

MissingIn(c) == Cardinality({i \in 1..Len(c.cells) : isna(c.cells[i])})

ReportOf(d) ==
    [total   |-> d.nrows * Len(d.cols),
     missing |-> SumSeq([j \in 1..Len(d.cols) |-> MissingIn(d.cols[j])]),
     percol  |-> [j \in 1..Len(d.cols) |-> <<d.cols[j].label, MissingIn(d.cols[j]), d.nrows>>]]

(***************************************************************************)
(* mean_imputation (lines 139-160)                                         *)
(***************************************************************************)
RoundDigits == 3

\* num/den (in units of 1/Scale) rounded to RoundDigits decimals, ties to
\* the even neighbour as numpy rounds; the result is in units of 1/Scale.
RoundRatio(num, den) ==
    LET step == (Scale \div Pow10(RoundDigits)) * den
        f    == num \div step
        r    == num - f * step
        up   == 2 * r > step \/ (2 * r = step /\ f % 2 = 1)
    IN  (IF up THEN f + 1 ELSE f) * (Scale \div Pow10(RoundDigits))

Present(c) == {i \in 1..Len(c.cells) : ~isna(c.cells[i])}

ColumnSum(c) ==
    SumSeq([i \in 1..Len(c.cells) |-> IF isna(c.cells[i]) THEN 0 ELSE c.cells[i].v])

IsNumberDtype(c) == c.dtype \in {"int64", "float64"}

\* One column: a numeric column with absent cells and a defined mean is
\* filled and rounded (line 148), one with no present value is left alone
\* (line 151), one without absent cells is rounded (line 154); a column of
\* dtype object has its absent cells set to pd.NA (line 159).
ImputeColumn(c) ==
    LET n == Len(c.cells)
    IN  IF IsNumberDtype(c)
        THEN IF \E i \in 1..n : isna(c.cells[i])
             THEN IF Present(c) # {}
                  THEN Column(c.label, "float64",
                              [i \in 1..n |->
                                  IF isna(c.cells[i])
                                  THEN Num(RoundRatio(ColumnSum(c), Cardinality(Present(c))))
                                  ELSE Num(RoundRatio(c.cells[i].v, 1))])
                  ELSE c
             ELSE Column(c.label, c.dtype,
                         [i \in 1..n |-> [c.cells[i] EXCEPT !.v = RoundRatio(c.cells[i].v, 1)]])
        ELSE Column(c.label, c.dtype,
                    [i \in 1..n |-> IF isna(c.cells[i]) THEN NA ELSE c.cells[i]])

mean_imputation(d) ==
    [d EXCEPT !.cols = [j \in 1..Len(d.cols) |-> ImputeColumn(d.cols[j])]]

(***************************************************************************)
(* DataFrame.to_csv(index=False, na_rep='NA') (line 218): the text of each *)
(* field.                                                                  *)
(***************************************************************************)
\* The decimals of a fraction f of Scale, trailing zeros dropped, at least one.
RECURSIVE FractionText(_, _)
FractionText(f, width) ==
    IF width = 0 THEN <<>>
    ELSE LET unit == Pow10(width - 1)
         IN  IF f % unit = 0
             THEN IntToText(f \div unit)
             ELSE IntToText(f \div unit) \o FractionText(f % unit, width - 1)

\* repr of a float, e.g. 1.5 -> "1.5", 2 -> "2.0".
FloatText(v) ==
    LET a == IF v < 0 THEN 0 - v ELSE v
    IN  (IF v < 0 THEN <<"-">> ELSE <<>>)
        \o IntToText(a \div Scale) \o <<".">> \o FractionText(a % Scale, 4)

FieldText(c) ==
    IF isna(c) THEN <<"N", "A">>
    ELSE IF c.k = "str" THEN c.s
    ELSE IF c.k = "int" THEN (IF c.v < 0 THEN <<"-">> ELSE <<>>)
                             \o IntToText((IF c.v < 0 THEN 0 - c.v ELSE c.v) \div Scale)
    ELSE FloatText(c.v)

ToCsv(d) ==
    [header |-> Labels(d),
     fields |-> [j \in 1..Len(d.cols) |->
                    [i \in 1..Len(d.cols[j].cells) |-> FieldText(d.cols[j].cells[i])]]]

\* pd.DataFrame().to_csv(...) (line 204): a file without header or rows.
EmptyCsv == [header |-> <<>>, fields |-> <<>>]

(***************************************************************************)
(* File names (lines 164-165, 203, 209, 217, 239).                         *)
(***************************************************************************)
\* str.lower of the characters the model's names use.
LowerChar(c) == CASE c = "C" -> "c" [] c = "S" -> "s" [] c = "V" -> "v" [] OTHER -> c

Lower(s) == [i \in 1..Len(s) |-> LowerChar(s[i])]

EndsWith(s, suffix) ==
    Len(s) >= Len(suffix) /\ SubSeq(s, Len(s) - Len(suffix) + 1, Len(s)) = suffix

DotCsv == <<".", "c", "s", "v">>

\* line 239: file.lower().endswith('.csv')
IsCsvName(name) == EndsWith(Lower(name), DotCsv)

\* The position of the last "." of s, 0 when there is none.
RECURSIVE LastDot(_, _)
LastDot(s, p) == IF p = 0 THEN 0 ELSE IF s[p] = "." THEN p ELSE LastDot(s, p - 1)

\* os.path.splitext(base_filename)[0]: a leading dot starts no extension.
filename_no_ext(name) ==
    IF LastDot(name, Len(name)) > 1 THEN SubSeq(name, 1, LastDot(name, Len(name)) - 1)
    ELSE name

\* The stem of a file's outputs: os.path.basename drops the directory.
OutputStem(f) == filename_no_ext(f.name)

CleanName(f) == OutputStem(f) \o <<"_", "c", "l", "e", "a", "n", ".", "c", "s", "v">>
EmptyName(f) ==
    OutputStem(f) \o <<"_", "c", "l", "e", "a", "n", "_", "e", "m", "p", "t", "y",
                       ".", "c", "s", "v">>
ReportName(f) == OutputStem(f) \o <<"_", "r", "e", "p", "o", "r", "t", ".", "t", "x", "t">>

\* open(..., "w") / to_csv on a path: the file is created or replaced.
WriteFile(fs, name, entry) ==
    [n \in DOMAIN fs \cup {name} |-> IF n = name THEN entry ELSE fs[n]]

(***************************************************************************)
(* The batch: main_processing_logic (lines 230-246) walking the tree and   *)
(* process_single_csv_file (lines 162-227) run stage by stage.             *)
(***************************************************************************)
Cur == tree[idx]

Passed(stage) == \E i \in 1..Len(trace) : trace[i].stage = stage

FrameAt(stage) == trace[CHOOSE i \in 1..Len(trace) : trace[i].stage = stage].df

\* A call of process_single_csv_file is under way (trace is that file's).
InFile == pc \notin {"idle", "start", "walk", "done", "crashed"}

\* A faulty variant: the exception leaves process_single_csv_file.
HandlerPropagates == "crashed"

\* What the except clause of line 222 leads to: the message is logged and the
\* finally clause runs; the call returns to the walk.

HandlerTarget == "finally"

\* The conditions under which each step of the batch is taken.
CanBatchStart  == pc = "start"
CanWalkSkip    == pc = "walk" /\ idx <= Len(tree) /\ ~IsCsvName(Cur.name)
CanWalkProcess == pc = "walk" /\ idx <= Len(tree) /\ IsCsvName(Cur.name)
CanWalkEnd     == pc = "walk" /\ idx > Len(tree)
CanPlaceholder == pc = "branch" /\ EmptyAfterPruning(df)
CanReport      == pc = "branch" /\ ~EmptyAfterPruning(df)
CanStage       == pc \in {"load", "headers", "extract", "prune", "impute", "save", "finally"}

\* lines 232-234
BatchStart ==
    /\ CanBatchStart
    /\ log' = Append(log, <<"Starting CSV processing", 0>>)
    /\ idx' = 1
    /\ pc' = "walk"
    /\ UNCHANGED <<tree, found, df, trace, cleanedFs, reportFs, writes, calls, xvars, hvars, gvars>>

\* lines 237-239: a file whose name does not end in .csv is passed over.
WalkSkip ==
    /\ CanWalkSkip
    /\ idx' = idx + 1
    /\ UNCHANGED <<tree, pc, found, df, trace, cleanedFs, reportFs, writes, calls, log,
                   xvars, hvars, gvars>>

\* lines 239-242 and 164-167: the orchestrator is called for a matching file.
WalkProcess ==
    /\ CanWalkProcess
    /\ found' = TRUE
    /\ calls' = Append(calls, idx)
    /\ log' = Append(log, <<"Starting processing for", idx>>)
    /\ trace' = <<>>
    /\ df' = NoFrame
    /\ pc' = "load"
    /\ UNCHANGED <<tree, idx, cleanedFs, reportFs, writes, xvars, hvars, gvars>>

\* lines 244-246
WalkEnd ==
    /\ CanWalkEnd
    /\ log' = (IF found THEN log ELSE Append(log, <<"No CSV files found", 0>>))
              \o <<<<"All CSV processing finished", 0>>>>
    /\ pc' = "done"
    /\ UNCHANGED <<tree, idx, found, df, trace, cleanedFs, reportFs, writes, calls,
                   xvars, hvars, gvars>>

\* lines 169-184.  content.bytes: "utf8" is read at once; "latin1" fails to
\* decode and is read by the second attempt; "blank" (a file of no bytes) and
\* "ragged" (rows the parser rejects) fail both attempts.
Load ==
    /\ pc = "load"
    /\ LET c      == Cur.content
           loaded == ReadCsv(c)
           retry  == IF c.bytes = "utf8" THEN <<>> ELSE <<<<"Error reading CSV", idx>>>>
       IN  IF c.bytes \in {"blank", "ragged"}
           THEN /\ log' = log \o retry \o <<<<"Failed to read", idx>>>>
                /\ pc' = "finally"
                /\ UNCHANGED <<df, trace>>
           ELSE IF SkipAfterLoad(loaded)
           THEN /\ log' = log \o retry \o <<<<"is empty. Skipping", idx>>>>
                /\ df' = loaded
                /\ pc' = "finally"
                /\ UNCHANGED trace
           ELSE /\ log' = log \o retry \o <<<<"Initial shape", idx>>>>
                /\ df' = loaded
                /\ trace' = Append(trace, [stage |-> "load", df |-> loaded])
                /\ pc' = "headers"
    /\ UNCHANGED <<tree, idx, found, cleanedFs, reportFs, writes, calls, xvars, hvars, gvars>>

\* lines 187-188
Headers ==
    /\ pc = "headers"
    /\ df' = WithLabels(df, clean_headers(Labels(df)))
    /\ trace' = Append(trace, [stage |-> "headers", df |-> df'])
    /\ log' = Append(log, <<"Headers cleaned", idx>>)
    /\ pc' = "extract"
    /\ UNCHANGED <<tree, idx, found, cleanedFs, reportFs, writes, calls, xvars, hvars, gvars>>

\* lines 191-192
ExtractNumerics ==
    /\ pc = "extract"
    /\ df' = clean_mixed_columns(df)
    /\ trace' = Append(trace, [stage |-> "extract", df |-> df'])
    /\ log' = Append(log, <<"Mixed-type columns processed", idx>>)
    /\ pc' = "prune"
    /\ UNCHANGED <<tree, idx, found, cleanedFs, reportFs, writes, calls, xvars, hvars, gvars>>

\* lines 195-199
Prune ==
    /\ pc = "prune"
    /\ df' = remove_fully_non_numeric_columns(df)
    /\ trace' = Append(trace, [stage |-> "prune", df |-> df'])
    /\ log' = IF Len(df'.cols) < Len(df.cols)
              THEN Append(log, <<"Removed fully non-numeric columns", idx>>) ELSE log
    /\ pc' = "branch"
    /\ UNCHANGED <<tree, idx, found, cleanedFs, reportFs, writes, calls, xvars, hvars, gvars>>

\* lines 201-206: the empty placeholder is written and the call returns.
Placeholder ==
    /\ CanPlaceholder
    /\ cleanedFs' = WriteFile(cleanedFs, EmptyName(Cur), [by |-> idx, csv |-> EmptyCsv])
    /\ writes' = Append(writes, [by |-> idx, folder |-> "cleaned", name |-> EmptyName(Cur)])
    /\ trace' = Append(trace, [stage |-> "placeholder", df |-> df])
    /\ log' = log \o <<<<"became empty", idx>>, <<"Saved an empty placeholder", idx>>>>
    /\ pc' = "finally"
    /\ UNCHANGED <<tree, idx, found, df, reportFs, calls, xvars, hvars, gvars>>

\* lines 209-210 and 104-136: the report is written from df as it stands; a
\* failure to write it is logged inside report_missing_values and the call
\* goes on.
Report ==
    /\ CanReport
    /\ \E written \in BOOLEAN :
          IF written
          THEN /\ reportFs' = WriteFile(reportFs, ReportName(Cur),
                                        [by |-> idx, report |-> ReportOf(df)])
               /\ writes' = Append(writes, [by |-> idx, folder |-> "reports",
                                            name |-> ReportName(Cur)])
               /\ log' = Append(log, <<"Missing value report saved", idx>>)
          ELSE /\ log' = Append(log, <<"Error generating missing values report", idx>>)
               /\ UNCHANGED <<reportFs, writes>>
    /\ trace' = Append(trace, [stage |-> "report", df |-> df])
    /\ pc' = "impute"
    /\ UNCHANGED <<tree, idx, found, df, cleanedFs, calls, xvars, hvars, gvars>>

\* lines 213-214
Impute ==
    /\ pc = "impute"
    /\ df' = mean_imputation(df)
    /\ trace' = Append(trace, [stage |-> "impute", df |-> df'])
    /\ log' = Append(log, <<"Mean imputation completed", idx>>)
    /\ pc' = "save"
    /\ UNCHANGED <<tree, idx, found, cleanedFs, reportFs, writes, calls, xvars, hvars, gvars>>

\* lines 217-220
Save ==
    /\ pc = "save"
    /\ cleanedFs' = WriteFile(cleanedFs, CleanName(Cur), [by |-> idx, csv |-> ToCsv(df)])
    /\ writes' = Append(writes, [by |-> idx, folder |-> "cleaned", name |-> CleanName(Cur)])
    /\ trace' = Append(trace, [stage |-> "save", df |-> df])
    /\ log' = log \o <<<<"Cleaned file saved", idx>>, <<"Final shape", idx>>>>
    /\ pc' = "finally"
    /\ UNCHANGED <<tree, idx, found, df, reportFs, calls, xvars, hvars, gvars>>

\* lines 222-225: an exception raised by a stage inside the try block (a
\* pandas call failing, a file that cannot be written) is caught and logged.
Fault ==
    /\ pc \in {"headers", "extract", "prune", "branch", "impute", "save"}
    /\ log' = Append(log, <<"Critical error processing file", idx>>)
    /\ trace' = Append(trace, [stage |-> "fault", df |-> df])
    /\ pc' = HandlerTarget
    /\ UNCHANGED <<tree, idx, found, df, cleanedFs, reportFs, writes, calls, xvars, hvars, gvars>>

\* lines 226-227, and the return to the loop of line 238.
Finally ==
    /\ pc = "finally"
    /\ log' = Append(log, <<"Finished processing for", idx>>)
    /\ idx' = idx + 1
    /\ pc' = "walk"
    /\ UNCHANGED <<tree, found, df, trace, cleanedFs, reportFs, writes, calls, xvars, hvars, gvars>>

NextBatch ==
    \/ BatchStart \/ WalkSkip \/ WalkProcess \/ WalkEnd
    \/ Load \/ Headers \/ ExtractNumerics \/ Prune
    \/ Placeholder \/ Report \/ Impute \/ Save
    \/ Fault \/ Finally

(***************************************************************************)
(* The inputs of a batch: either one file whose columns run over all       *)
(* combinations of a few fields, or several files in two directories with  *)
(* a few contents each.                                                    *)
(***************************************************************************)
Content(bytes, header, rows) == [bytes |-> bytes, header |-> header, rows |-> rows]

\* The fields of a row: empty, two numbers, a text without digits, a text
\* holding a number.
RawFields == {<<>>, <<"1">>, <<"2", ".", "5">>, <<"x">>, <<"$", "3">>}

RawHeaders == {<<<<"a">>>>, <<<<"a", " ", "(", "x", ")">>, <<"b">>>>}

RichContents ==
    {Content("utf8", h, r) :
        h \in RawHeaders,
        r \in UNION {[1..n -> UNION {[1..w -> RawFields] : w \in {1, 2}}] : n \in 0..MaxRows}}

WellFormed(c) == \A i \in 1..Len(c.rows) : Len(c.rows[i]) = Len(c.header)

BlankFile  == Content("blank", <<>>, <<>>)
HeaderOnly == Content("utf8", <<<<"a">>, <<"b">>>>, <<>>)
TextOnly   == Content("utf8", <<<<"a">>>>, <<<<<<"x">>>>, <<<<"x">>>>>>)
WithGap    == Content("latin1", <<<<"a">>, <<"b">>>>,
                      <<<<<<"1">>, <<"1">>>>, <<<<>>, <<"2", ".", "5">>>>>>)

PoorContents == {BlankFile, HeaderOnly, TextOnly, WithGap}

FileNames ==
    {<<"a", ".", "c", "s", "v">>, <<"a", ".", "C", "S", "V">>, <<"n", ".", "t", "x", "t">>}

Dirs == {"x", "y"}

File(d, n, c) == [dir |-> d, name |-> n, content |-> c]

DistinctPaths(q) ==
    \A i, j \in 1..Len(q) : i # j => <<q[i].dir, q[i].name>> # <<q[j].dir, q[j].name>>

Trees ==
    {<<File("x", <<"a", ".", "c", "s", "v">>, c)>> : c \in {r \in RichContents : WellFormed(r)}}
        \cup {q \in UNION {[1..n -> {File(d, n2, c) : d \in Dirs, n2 \in FileNames,
                                                       c \in PoorContents}] : n \in 0..MaxFiles} :
                 DistinctPaths(q)}

InitBatch ==
    /\ tree \in Trees
    /\ idx = 0
    /\ pc = "start"
    /\ found = FALSE
    /\ df = NoFrame
    /\ trace = <<>>
    /\ cleanedFs = NoFiles
    /\ reportFs = NoFiles
    /\ writes = <<>>
    /\ calls = <<>>
    /\ log = <<>>
    /\ ExtractIdle
    /\ HeadersIdle
    /\ GuiIdle

SpecBatch == InitBatch /\ [][NextBatch]_vars

(***************************************************************************)
(* Claims about the pipeline and the batch.                                *)
(***************************************************************************)
NumberCells(c) == {i \in 1..Len(c.cells) : c.cells[i].k \in {"int", "num"}}

NumberSum(c) ==
    SumSeq([i \in 1..Len(c.cells) |->
               IF i \in NumberCells(c) THEN c.cells[i].v ELSE 0])

NAText == <<"N", "A">>

\* C1: in the file saved, every retained column that has a present number
\* holds, where a cell was absent before imputation, the column's mean of
\* present values rounded to three decimals, and elsewhere the value it had,
\* rounded; no field of such a column is written as NA.
C1_AbsentCellsGetMean ==
    (InFile /\ Passed("save")) =>
        LET pre  == FrameAt("prune")
            post == FrameAt("save")
            csv  == cleanedFs[CleanName(Cur)].csv
        IN  \A j \in 1..Len(pre.cols) :
                LET c == pre.cols[j]
                IN  NumberCells(c) # {} =>
                        \A i \in 1..Len(c.cells) :
                            /\ post.cols[j].cells[i].k \in {"int", "num"}
                            /\ post.cols[j].cells[i].v =
                                  IF i \in NumberCells(c) THEN RoundRatio(c.cells[i].v, 1)
                                  ELSE RoundRatio(NumberSum(c), Cardinality(NumberCells(c)))
                            /\ csv.fields[j][i] # NAText

\* A cell that is a number, or a text that reads whole as a number; an
\* absent cell is not one.
IsNumberCell(x) == x.k \in {"int", "num"} \/ (x.k = "str" /\ FullNumber(x.s))

RECURSIVE ColumnsWithNumbers(_)
ColumnsWithNumbers(cs) ==
    IF cs = <<>> THEN <<>>
    ELSE (IF \E i \in 1..Len(Head(cs).cells) : IsNumberCell(Head(cs).cells[i])
          THEN <<Head(cs)>> ELSE <<>>)
         \o ColumnsWithNumbers(Tail(cs))

\* C2: pruning keeps, in their order, exactly the columns with at least one
\* cell that is a number or reads as one; a column of text and absent cells
\* only is dropped.
C2_KeptIffHasNumber ==
    (InFile /\ Passed("prune")) =>
        FrameAt("prune").cols = ColumnsWithNumbers(FrameAt("extract").cols)

ZeroDataRows(f) == DataRows(f.content.rows) = <<>>

WritesBy(i) == {w \in 1..Len(writes) : writes[w].by = i}

\* C3 as stated: a file with zero data rows gets the _clean_empty placeholder
\* and no report.
C3_ZeroRowsGetPlaceholder ==
    (pc = "finally" /\ ZeroDataRows(Cur)) =>
        /\ EmptyName(Cur) \in DOMAIN cleanedFs
        /\ \A w \in WritesBy(idx) : writes[w].folder # "reports"

\* C3 as amended: a file with zero data rows is abandoned after loading; its
\* processing writes no file at all, neither a cleaned file nor a
\* placeholder nor a report, and passes no stage.
C3_ZeroRowsWriteNothing ==
    (InFile /\ ZeroDataRows(Cur)) =>
        /\ WritesBy(idx) = {}
        /\ trace = <<>>
        /\ pc \in {"load", "finally"}

\* Witness of C3: a file of a header and no rows has been loaded and skipped.
C3_Witness ==
    /\ pc = "finally"
    /\ Cur.content.bytes = "utf8" /\ Cur.content.header # <<>> /\ ZeroDataRows(Cur)
    /\ log[Len(log)] = <<"is empty. Skipping", idx>>

\* The matching files among the first n of the tree, in order.
RECURSIVE MatchingUpTo(_)
MatchingUpTo(n) ==
    IF n <= 0 THEN <<>>
    ELSE MatchingUpTo(n - 1) \o (IF IsCsvName(tree[n].name) THEN <<n>> ELSE <<>>)

\* C4: the orchestrator is called once for each matching file, in order,
\* whatever became of the files before it; no failure of a file ends the
\* batch, which goes on until it has logged its final message.
CanStep ==
    \/ CanBatchStart \/ CanWalkSkip \/ CanWalkProcess \/ CanWalkEnd
    \/ CanPlaceholder \/ CanReport \/ CanStage

C4_CallsSoFar ==
    /\ pc # "done" => CanStep
    /\ calls = MatchingUpTo(IF pc \in {"start", "walk", "done"} THEN idx - 1
                            ELSE idx)
    /\ pc = "done" =>
          /\ calls = MatchingUpTo(Len(tree))
          /\ log[Len(log)] = <<"All CSV processing finished", 0>>

\* How far the batch has come: the messages logged and the files walked,
\* and within a file the stage reached.
StageRank(p) ==
    CASE p = "load" -> 1 [] p = "headers" -> 2 [] p = "extract" -> 3
      [] p = "prune" -> 4 [] p = "branch" -> 5 [] p = "impute" -> 6
      [] p = "save" -> 7 [] p = "finally" -> 8 [] OTHER -> 0

Advance(l, i, p) == 10 * (Len(l) + i) + StageRank(p)

\* C4: every matching file of the walk is handed to the orchestrator once, in
\* order, whatever happened to the files before it; every step of the batch
\* takes it further, so the steps, of which one is always possible, end with
\* the final message.
C4_EveryCsvOnce ==
    []C4_CallsSoFar /\ [][Advance(log', idx', pc') > Advance(log, idx, pc)]_vars

\* Witness of C4: the first file failed with an exception, the second was
\* still processed and the batch finished.
C4_Witness ==
    /\ pc = "done"
    /\ calls = <<1, 2>>
    /\ \E i \in 1..Len(log) : log[i] = <<"Critical error processing file", 1>>
    /\ \E i \in 1..Len(log) : log[i] = <<"Cleaned file saved", 2>>

StageNames == [i \in 1..Len(trace) |-> trace[i].stage]

IsPrefix(p, q) == Len(p) <= Len(q) /\ SubSeq(q, 1, Len(p)) = p

EmptyBranch == <<"load", "headers", "extract", "prune", "placeholder">>
FullBranch == <<"load", "headers", "extract", "prune", "report", "impute", "save">>

\* The stages passed, a closing fault left out.
StagesRun ==
    IF trace # <<>> /\ trace[Len(trace)].stage = "fault"
    THEN SubSeq(StageNames, 1, Len(trace) - 1) ELSE StageNames

NoRowsOrNoColumns(d) == d.nrows = 0 \/ Len(d.cols) = 0

\* C8: the stages of a file run in the order load, headers, extraction,
\* pruning and then one branch: with no rows or no columns left only the
\* placeholder is written; otherwise the report is made from the dataset as
\* pruned, imputation follows and the _clean file is written last.  No file
\* gets both a _clean and a _clean_empty output.
C8_StageOrder ==
    /\ IsPrefix(StagesRun, EmptyBranch) \/ IsPrefix(StagesRun, FullBranch)
    /\ (InFile /\ Passed("placeholder")) =>
          /\ NoRowsOrNoColumns(FrameAt("prune"))
          /\ \A w \in WritesBy(idx) : writes[w].name = EmptyName(Cur)
    /\ (InFile /\ Passed("report")) =>
          /\ ~NoRowsOrNoColumns(FrameAt("prune"))
          /\ \A w \in WritesBy(idx) : writes[w].name \in {ReportName(Cur), CleanName(Cur)}
          /\ \A w \in WritesBy(idx) :
                writes[w].folder = "reports" =>
                    reportFs[ReportName(Cur)].report = ReportOf(FrameAt("prune"))
    /\ (InFile /\ Passed("save")) =>
          /\ writes[Len(writes)] = [by |-> idx, folder |-> "cleaned", name |-> CleanName(Cur)]
          /\ cleanedFs[CleanName(Cur)].csv = ToCsv(mean_imputation(FrameAt("prune")))
    /\ (pc = "finally" /\ Passed("prune") /\ ~Passed("fault")) =>
          Passed("placeholder") \/ Passed("save")
    /\ \A v, w \in 1..Len(writes) :
          writes[v].by = writes[w].by =>
              ~(/\ writes[v].name = CleanName(tree[writes[v].by])
                /\ writes[w].name = EmptyName(tree[writes[w].by]))

\* Witness of C8: a file went through report, imputation and save, its
\* report written, after an earlier file of the batch got the placeholder.
C8_Witness ==
    /\ pc = "finally"
    /\ StageNames = FullBranch
    /\ \E w \in WritesBy(idx) : writes[w].folder = "reports"
    /\ \E w \in 1..Len(writes) :
          writes[w].by # idx /\ writes[w].name = EmptyName(tree[writes[w].by])

\* C9: no file of the batch overwrites the output of another: once the batch
\* is done the cleaned folder holds one file for each file that was saved
\* or got the placeholder.
C9_OutputsKept ==
    pc = "done" =>
        /\ Cardinality(DOMAIN cleanedFs)
              = Cardinality({w \in 1..Len(writes) : writes[w].folder = "cleaned"})
        /\ \A v, w \in 1..Len(writes) :
              (writes[v].by # writes[w].by /\ writes[v].folder = writes[w].folder)
                  => writes[v].name # writes[w].name

(***************************************************************************)
(* The GUI shell (lines 341-389).  The main thread runs Tk's event loop:   *)
(* it handles a click on a button that is in state normal, or the next     *)
(* callback queued with master.after.  A worker thread runs the batch,     *)
(* which logs through _log_message (line 321: master.after) and ends by    *)
(* queueing _finalize_processing (line 382).                               *)
(***************************************************************************)
\* A faulty variant: the buttons are left as they are when a run starts.
ButtonsLeftEnabled == "normal"

\* lines 364-365: the state given to both buttons before the thread starts.
ButtonsWhileRunning == "disabled"

RECURSIVE Repeat(_, _)
Repeat(x, n) == IF n = 0 THEN <<>> ELSE <<x>> \o Repeat(x, n - 1)

RemoveAt(q, i) == SubSeq(q, 1, i - 1) \o SubSeq(q, i + 1, Len(q))

\* lines 342-352: a click with a path missing, or an input folder that does
\* not exist, shows an error and returns.
StartRejected ==
    /\ main = "idle" /\ process_button = "normal"
    /\ \E why \in {"path missing", "no such folder"} : last' = <<"rejected", why>>
    /\ UNCHANGED <<process_button, quit_button, main, threads, afterq, outcome,
                   xvars, hvars, bvars>>

\* lines 342-365: a click with valid paths clears the log area, queues four
\* messages and sets the state of both buttons.
StartAccepted ==
    /\ main = "idle" /\ process_button = "normal"
    /\ afterq' = afterq \o Repeat("log", 4)
    /\ process_button' = ButtonsWhileRunning
    /\ quit_button' = ButtonsWhileRunning
    /\ main' = "starting"
    /\ last' = <<"accepted", "">>
    /\ UNCHANGED <<threads, outcome, xvars, hvars, bvars>>

\* lines 368-371: the worker thread is created and started; the batch it
\* runs will log some number of messages.
StartThread ==
    /\ main = "starting"
    /\ \E n \in 0..MaxLogs : threads' = Append(threads, n)
    /\ main' = "idle"
    /\ UNCHANGED <<process_button, quit_button, afterq, last, outcome, xvars, hvars, bvars>>

\* line 375 and 320-321: the batch logs a message.
WorkerLog(i) ==
    /\ threads[i] > 0
    /\ threads' = [threads EXCEPT ![i] = threads[i] - 1]
    /\ afterq' = Append(afterq, "log")
    /\ UNCHANGED <<process_button, quit_button, main, last, outcome, xvars, hvars, bvars>>

\* lines 375 and 380-382: the batch returns; finalization is queued.
WorkerReturn(i) ==
    /\ threads[i] = 0
    /\ threads' = RemoveAt(threads, i)
    /\ afterq' = Append(afterq, "finalize")
    /\ outcome' = "returned"
    /\ UNCHANGED <<process_button, quit_button, main, last, xvars, hvars, bvars>>

\* lines 376-382: the batch raises; two messages are logged and
\* finalization is queued all the same.
WorkerRaise(i) ==
    /\ threads' = RemoveAt(threads, i)
    /\ afterq' = afterq \o <<"log", "log", "finalize">>
    /\ outcome' = "raised"
    /\ UNCHANGED <<process_button, quit_button, main, last, xvars, hvars, bvars>>

\* lines 323-328: the event loop runs a queued _update_gui_log.
DispatchLog ==
    /\ main = "idle"
    /\ afterq # <<>> /\ Head(afterq) = "log"
    /\ afterq' = Tail(afterq)
    /\ last' = <<"logged", "">>
    /\ UNCHANGED <<process_button, quit_button, main, threads, outcome, xvars, hvars, bvars>>

\* lines 384-389: the event loop runs the queued _finalize_processing.
DispatchFinalize ==
    /\ main = "idle"
    /\ afterq # <<>> /\ Head(afterq) = "finalize"
    /\ process_button' = "normal"
    /\ quit_button' = "normal"
    /\ afterq' = Tail(afterq) \o Repeat("log", 2)
    /\ last' = <<"finalized", outcome>>
    /\ UNCHANGED <<main, threads, outcome, xvars, hvars, bvars>>

\* line 308: a click on Quit ends the event loop.
Quit ==
    /\ main = "idle" /\ quit_button = "normal"
    /\ main' = "quit"
    /\ last' = <<"quit", "">>
    /\ UNCHANGED <<process_button, quit_button, threads, afterq, outcome, xvars, hvars, bvars>>

Worker == \E i \in 1..Len(threads) : WorkerLog(i) \/ WorkerReturn(i) \/ WorkerRaise(i)

NextGui ==
    \/ StartRejected \/ StartAccepted \/ StartThread
    \/ Worker
    \/ DispatchLog \/ DispatchFinalize
    \/ Quit

InitGui ==
    /\ GuiIdle
    /\ ExtractIdle
    /\ HeadersIdle
    /\ BatchIdle

SpecGui == InitGui /\ [][NextGui]_vars

\* The event loop handles what is queued, a thread that was created runs,
\* and a batch ends (C4): each of these steps is taken when it can be.
FairSpecGui ==
    /\ SpecGui
    /\ WF_vars(StartThread)
    /\ WF_vars(Worker)
    /\ WF_vars(DispatchLog)
    /\ WF_vars(DispatchFinalize)

C10_Controls ==
    /\ Len(threads) <= 1
    /\ (threads # <<>> \/ main = "starting") =>
          process_button = "disabled" /\ quit_button = "disabled"
    /\ last[1] = "rejected" =>
          /\ threads = <<>> /\ main # "starting"
          /\ process_button = "normal" /\ quit_button = "normal"

\* C10: at most one batch runs at a time; the start button is disabled before
\* the worker thread starts and for as long as it runs; once disabled, both
\* buttons are enabled again in the end, however the batch ended; a rejected
\* start starts no worker and leaves the buttons enabled.
C10_OneBatchAtATime ==
    /\ []C10_Controls
    /\ (process_button = "disabled")
          ~> (process_button = "normal" /\ quit_button = "normal" /\ threads = <<>>)

\* Witness of C10: a worker ended with an exception and the buttons were
\* enabled again by the finalization that followed.
C10_Witness ==
    /\ last = <<"finalized", "raised">>
    /\ process_button = "normal" /\ quit_button = "normal"
    /\ threads = <<>>

=============================================================================
